---- MODULE Spec2Model ----
(***************************************************************************)
(* Training loop (train.py) and generation script (generate.py) of the     *)
(* Simple-Diffusion-Model repository, with the DDIM sampler's generate and *)
(* the EMA tracker they call.                                              *)
(*                                                                         *)
(* Numbers are fixed-point integers: parameters and gradients in           *)
(* hundredths, decay coefficients in units of 1/GammaUnit, the sampler's   *)
(* values as residues modulo NoiseMod.                                     *)
(***************************************************************************)
EXTENDS Integers, Sequences, FiniteSets, TLC

\* ------------------------------------------------------------------ bounds
MaxEpochs == 2
MaxStepsPerEpoch == 2
MaxGradAccum == 2
MaxSaveSteps == 2
MaxScriptRuns == 2
MaxT == 6

\* --------------------------------------------------------- program constants
SEED == 42
n_timesteps == 1024
n_inference_timesteps == 256
script_n_timesteps == 1000
script_n_inference_timesteps == 20
SampleSeed == 0
Eta == 1
MaxNorm == 100

\* ------------------------------------------------------- units of the model
GammaUnit == 10
GammaCeil == 9
NoiseMod == 7
GradInf == 0 - 1
NoCall == 0 - 1

Min(a, b) == IF a <= b THEN a ELSE b

\* ----------------------------------------------------- random number source
\* A torch generator: the seed it was last seeded with and the number of draws
\* since. The value of a draw is a fixed function of both.
ManualSeed(s) == [seed |-> s, n |-> 0]
Draw(r) == (r.seed * 5 + r.n * 3 + 1) % NoiseMod
Advance(r) == [r EXCEPT !.n = @ + 1]

\* torch.manual_seed(0) as the scripts call it: it seeds the process-wide
\* default generator and returns that same generator, so the "generator" handed
\* to generate is the default generator of the process.
\* (SeedForSamplingKeep: a call that hands the generator on without seeding.)
SeedForSamplingKeep(r) == r
SeedForSampling(r) == ManualSeed(SampleSeed)

\* --------------------------------------------------------------- EMA tracker
EMAInit(model, gamma0, total) ==
    [shadow |-> model, base_gamma |-> gamma0, total_steps |-> total]

\* shadow <- gamma * shadow + (1 - gamma) * live
UpdateParamsShadow(shadow, liveP, g) ==
    (g * shadow + (GammaUnit - g) * liveP) \div GammaUnit

\* Non-decreasing in step, equal to the base value at step 0, rising toward a
\* ceiling below 1 as step approaches total_steps. Undefined for total = 0.
UpdateGamma(e, k) ==
    e.base_gamma
      + ((GammaCeil - e.base_gamma) * Min(k, e.total_steps)) \div e.total_steps

\* ---------------------------------------------------------------- arguments
\* total_num_steps as main computes it.
TotalNumSteps(spe, a) ==
    LET t == (spe * a.num_epochs) \div a.gradient_accumulation_steps
    IN  t + ((t * 10) \div 100)

Args ==
    [num_epochs : 1..MaxEpochs,
     gradient_accumulation_steps : 1..MaxGradAccum,
     save_model_steps : 1..MaxSaveSteps,
     use_clip_grad : BOOLEAN,
     fp16_precision : BOOLEAN,
     gamma : {5, 8}]

\* Gradients a backward pass can leave: a finite one beyond the clipping norm
\* and, under fp16 only, a non-finite one.
Grads(a) == {300} \cup (IF a.fp16_precision THEN {GradInf} ELSE {})

\* clip_grad_norm_(model.parameters(), 1.0)
ClipGradNorm(g) == IF g # GradInf /\ g > MaxNorm THEN MaxNorm ELSE g

\* The parameter buffer the AdamW optimizer was constructed over
\* (OptimizerParamsEma: the tracker's copy instead).
OptimizerParamsEma == "ema_model"
OptimizerParams == "model"

\* The step value the loop hands to ema.update_gamma: the run-wide counter
\* global_step, not the per-epoch enumerate index (GammaStepArgEpochIndex).
GammaStepArgEpochIndex(gs, st) == st
GammaStepArg(gs, st) == gs

\* The predictor handed to noise_scheduler.generate at a save point: the
\* tracker's model (SamplePredictorLive: the live model instead).
SamplePredictorLive(liveP, e) == liveP
SamplePredictor(liveP, e) == e.shadow

\* What the scripts do with an exception raised inside generate: the call sits
\* in no try block, so it leaves main (OnPredictorRaiseSwallow: a handler
\* that goes on).
OnPredictorRaiseSwallow == "swallow"
OnPredictorRaise == "propagate"

\* ------------------------------------------------------------- DDIM sampler
\* tau_i for i = 0..S-1: evenly spaced over [0, T-1], strictly decreasing, the
\* last one 0. (TimestepAtOneBased: the same spacing counted from 1.)
TimestepAtOneBased(T, S, i) == (S - i) * (T \div S)
TimestepAt(T, S, i) == (S - 1 - i) * (T \div S)

\* The external predictor: some fixed function of its weights and inputs.
Predictor(w, x, t) == (w + x + t) % NoiseMod

\* sigma_i > 0: eta > 0 and a later timestep remains.
SigmaPositive(S, i) == Eta > 0 /\ i < S - 1

ConfigOk(T, S) == T > 0 /\ S > 0 /\ S <= T

\* The state inside a generate call: the schedule lengths, the predictor's
\* weights, the index i of the next step, the rolling estimate x, the input
\* xin and timestep tau of the latest step, with xprev and tauPrev the
\* estimate and timestep before it, and r0 the generator's state at the call.
SamplerIdle ==
    [status |-> "idle", T |-> 0, S |-> 0, i |-> 0, x |-> 0, xin |-> 0,
     xprev |-> 0, w |-> 0, tau |-> 0, tauPrev |-> 0, r0 |-> ManualSeed(0)]

\* generate up to its loop: x drawn from the generator (one draw).
GenBegin(T, S, w, r) ==
    [status |-> "running", T |-> T, S |-> S, i |-> 0, x |-> Draw(r),
     xin |-> 0, xprev |-> 0, w |-> w, tau |-> T, tauPrev |-> T, r0 |-> r]

\* One denoising step on the rolling estimate x with generator r.
GenStepX(g, r) ==
    LET t == TimestepAt(g.T, g.S, g.i)
        eps == Predictor(g.w, g.x, t)
        fresh == IF SigmaPositive(g.S, g.i) THEN Draw(r) ELSE 0
    IN  (2 * g.x + eps + fresh) % NoiseMod

GenStepRng(g, r) == IF SigmaPositive(g.S, g.i) THEN Advance(r) ELSE r

\* The input each step denoises: the previous step's output.
StepInput(g) == g.x

GenAdvance(g, r) ==
    [g EXCEPT !.i = @ + 1, !.xin = StepInput(g), !.xprev = g.x,
              !.x = GenStepX([g EXCEPT !.x = StepInput(g)], r),
              !.tau = TimestepAt(g.T, g.S, g.i), !.tauPrev = g.tau]

\* Draws generate has taken from its generator once k steps are complete: the
\* initial x and one fresh noise per completed step with sigma > 0.
GenDraws(S, k) == 1 + (IF Eta > 0 THEN Min(k, S - 1) ELSE 0)

AdvanceBy(r, d) == [r EXCEPT !.n = @ + d]

\* What a completed generate call returns, as a term: the arrays are a fixed
\* function of the predictor's weights, the schedule lengths and the stream of
\* the generator, which the generator's state at the call determines.
Sample(T, S, w, r) == [T |-> T, S |-> S, w |-> w, stream |-> r]

\* The steps at which the model lets the predictor raise: first, middle, last.
RaiseSteps(S) == {0, S \div 2, S - 1}

VARIABLES
    args, steps_per_epcoch, total_num_steps,
    pc, epoch, step, global_step,
    live, grad, gamma, ema, rng, noise,
    gen, sampler,
    ckpt, images,
    spc, smodel, srng, sgen, sout, sruns,
    hist

trainVars ==
    <<pc, epoch, step, global_step, live, grad, gamma, ema, rng, noise>>
cfgVars == <<args, steps_per_epcoch, total_num_steps>>
outVars == <<ckpt, images>>
scriptVars == <<spc, smodel, srng, sgen, sout, sruns>>
vars == <<cfgVars, trainVars, gen, sampler, outVars, scriptVars, hist>>

\* A generate call as its caller sees it: how it ended, the predictor it was
\* given, and the result it returned (none unless it returned).
GenIdle == [status |-> "idle", w |-> 0, out |-> <<>>]

HistInit ==
    [gammaSeq |-> <<>>, stepSeq |-> <<>>,
     scalerSteps |-> 0, optSteps |-> 0, emaCalls |-> 0,
     clipped |-> FALSE, appliedClipped |-> TRUE,
     genCalls |-> 0, genAt |-> NoCall, calls |-> {}, ckptAt |-> NoCall,
     ckptWrites |-> 0, imageSaves |-> 0, genDone |-> 0,
     priorRng |-> ManualSeed(SEED), rngIfNoSampling |-> ManualSeed(SEED),
     sgenCalls |-> 0, sPrior |-> ManualSeed(SEED)]

Init ==
    /\ args \in Args
    /\ steps_per_epcoch \in 1..MaxStepsPerEpoch
    /\ total_num_steps = TotalNumSteps(steps_per_epcoch, args)
    /\ pc = "epoch_start"
    /\ epoch = 0
    /\ step = 0
    /\ global_step = 0
    /\ live = 0
    /\ grad = 0
    /\ gamma = args.gamma
    /\ ema = EMAInit(0, args.gamma, total_num_steps)
    /\ rng = ManualSeed(SEED)
    /\ noise = 0
    /\ gen = GenIdle
    /\ sampler = SamplerIdle
    /\ ckpt = <<>>
    /\ images = <<>>
    /\ spc = "idle"
    /\ smodel = 0
    /\ srng = ManualSeed(SEED)
    /\ sgen = GenIdle
    /\ sout = [dir |-> FALSE, files |-> 0, grid |-> FALSE]
    /\ sruns = 0
    /\ hist = HistInit

\* for epoch in range(num_epochs): the DataLoader iterator draws its shuffle
\* seed from the default generator.
EpochStart ==
    /\ pc = "epoch_start"
    /\ IF epoch < args.num_epochs
       THEN /\ pc' = "fetch"
            /\ step' = 0
            /\ rng' = Advance(rng)
            /\ hist' = [hist EXCEPT !.rngIfNoSampling = Advance(@)]
       ELSE /\ pc' = "done"
            /\ UNCHANGED <<step, rng, hist>>
    /\ UNCHANGED <<cfgVars, sampler, epoch, global_step, live, grad, gamma,
                   ema, noise, gen, outVars, scriptVars>>

\* enumerate(train_dataloader) yields the next batch, then the noise and the
\* timesteps are drawn from the default generator; or the loader is exhausted.
Fetch ==
    /\ pc = "fetch"
    /\ IF step < steps_per_epcoch
       THEN /\ noise' = Draw(rng)
            /\ rng' = Advance(Advance(rng))
            /\ hist' = [hist EXCEPT !.rngIfNoSampling = Advance(Advance(@))]
            /\ pc' = "backward"
       ELSE /\ pc' = "epoch_end"
            /\ UNCHANGED <<noise, rng, hist>>
    /\ UNCHANGED <<cfgVars, sampler, epoch, step, global_step, live, grad,
                   gamma, ema, gen, outVars, scriptVars>>

\* optimizer.zero_grad(); forward under autocast; scaler.scale(loss).backward()
Backward ==
    /\ pc = "backward"
    /\ \E g \in Grads(args) : grad' = g
    /\ hist' = [hist EXCEPT !.clipped = FALSE]
    /\ pc' = "scaler_step"
    /\ UNCHANGED <<cfgVars, sampler, epoch, step, global_step, live, gamma,
                   ema, rng, noise, gen, outVars, scriptVars>>

\* scaler.step(optimizer); scaler.update(): the optimizer steps on the current
\* gradients unless the scaler found them non-finite, and then it is skipped.
ScalerStep ==
    /\ pc = "scaler_step"
    /\ IF grad = GradInf
       THEN /\ UNCHANGED <<live, ema>>
            /\ hist' = [hist EXCEPT !.scalerSteps = @ + 1]
       ELSE /\ IF OptimizerParams = "model"
               THEN live' = live - grad /\ UNCHANGED ema
               ELSE ema' = [ema EXCEPT !.shadow = @ - grad] /\ UNCHANGED live
            /\ hist' = [hist EXCEPT !.scalerSteps = @ + 1,
                                    !.optSteps = @ + 1,
                                    !.appliedClipped = hist.clipped]
    /\ pc' = "ema_params"
    /\ UNCHANGED <<cfgVars, sampler, epoch, step, global_step, grad, gamma,
                   rng, noise, gen, outVars, scriptVars>>

\* ema.update_params(gamma)
EmaUpdateParams ==
    /\ pc = "ema_params"
    /\ ema' = [ema EXCEPT !.shadow = UpdateParamsShadow(@, live, gamma)]
    /\ hist' = [hist EXCEPT !.emaCalls = @ + 1,
                            !.gammaSeq = Append(@, gamma)]
    /\ pc' = "ema_gamma"
    /\ UNCHANGED <<cfgVars, sampler, epoch, step, global_step, live, grad,
                   gamma, rng, noise, gen, outVars, scriptVars>>

\* gamma = ema.update_gamma(global_step); the schedule divides by total_steps.
EmaUpdateGamma ==
    /\ pc = "ema_gamma"
    /\ hist' = [hist EXCEPT
                  !.stepSeq = Append(@, GammaStepArg(global_step, step))]
    /\ IF ema.total_steps = 0
       THEN pc' = "crashed" /\ UNCHANGED gamma
       ELSE /\ gamma' = UpdateGamma(ema, GammaStepArg(global_step, step))
            /\ pc' = "clip"
    /\ UNCHANGED <<cfgVars, sampler, epoch, step, global_step, live, grad,
                   ema, rng, noise, gen, outVars, scriptVars>>

\* if args.use_clip_grad: clip_grad_norm_(model.parameters(), 1.0)
ClipGrad ==
    /\ pc = "clip"
    /\ IF args.use_clip_grad
       THEN /\ grad' = ClipGradNorm(grad)
            /\ hist' = [hist EXCEPT !.clipped = TRUE]
       ELSE UNCHANGED <<grad, hist>>
    /\ pc' = "log"
    /\ UNCHANGED <<cfgVars, sampler, epoch, step, global_step, live, gamma,
                   ema, rng, noise, gen, outVars, scriptVars>>

\* lr_scheduler.step(); progress and logs; global_step += 1
LogStep ==
    /\ pc = "log"
    /\ global_step' = global_step + 1
    /\ pc' = "save_check"
    /\ UNCHANGED <<cfgVars, sampler, epoch, step, live, grad, gamma, ema, rng,
                   noise, gen, outVars, scriptVars, hist>>

\* if global_step % args.save_model_steps == 0; otherwise the next batch.
SaveCheck ==
    /\ pc = "save_check"
    /\ IF global_step % args.save_model_steps = 0
       THEN pc' = "manual_seed" /\ UNCHANGED step
       ELSE pc' = "fetch" /\ step' = step + 1
    /\ UNCHANGED <<cfgVars, sampler, epoch, global_step, live, grad, gamma,
                   ema, rng, noise, gen, outVars, scriptVars, hist>>

\* ema.ema_model.eval(); generator = torch.manual_seed(0)
SeedGenerator ==
    /\ pc = "manual_seed"
    /\ rng' = SeedForSampling(rng)
    /\ hist' = [hist EXCEPT !.priorRng = rng]
    /\ pc' = "generate"
    /\ UNCHANGED <<cfgVars, sampler, epoch, step, global_step, live, grad,
                   gamma, ema, noise, gen, outVars, scriptVars>>

\* noise_scheduler.generate(ema.ema_model, num_inference_steps=..., ...)
\* returning its result: the initial draw and every denoising step.
Generate ==
    /\ pc = "generate"
    /\ ConfigOk(n_timesteps, n_inference_timesteps)
    /\ LET w == SamplePredictor(live, ema)
           out == Sample(n_timesteps, n_inference_timesteps, w, rng)
       IN  /\ gen' = [status |-> "done", w |-> w, out |-> <<out>>]
           /\ hist' = [hist EXCEPT !.genCalls = @ + 1, !.genAt = global_step,
                                   !.genDone = @ + 1,
                                   !.calls = @ \cup {[out |-> out,
                                                      prior |-> hist.priorRng]}]
    /\ rng' = AdvanceBy(rng, GenDraws(n_inference_timesteps,
                                      n_inference_timesteps))
    /\ pc' = "save_images"
    /\ UNCHANGED <<cfgVars, sampler, epoch, step, global_step, live, grad,
                   gamma, ema, noise, outVars, scriptVars>>

\* The same call with the predictor raising in denoising step k: generate
\* drops its rolling estimate and the exception leaves it.
GenerateRaise ==
    /\ pc = "generate"
    /\ ConfigOk(n_timesteps, n_inference_timesteps)
    /\ \E k \in RaiseSteps(n_inference_timesteps) :
         rng' = AdvanceBy(rng, GenDraws(n_inference_timesteps, k))
    /\ gen' = [status |-> "raised", w |-> SamplePredictor(live, ema),
               out |-> <<>>]
    /\ hist' = [hist EXCEPT !.genCalls = @ + 1, !.genAt = global_step]
    /\ pc' = IF OnPredictorRaise = "propagate" THEN "crashed" ELSE "save_images"
    /\ UNCHANGED <<cfgVars, sampler, epoch, step, global_step, live, grad,
                   gamma, ema, noise, outVars, scriptVars>>

\* save_images(generated_images, epoch, args)
SaveImages ==
    /\ pc = "save_images"
    /\ images' = <<[epoch |-> epoch, sample |-> gen.out]>>
    /\ hist' = [hist EXCEPT !.imageSaves = @ + 1]
    /\ pc' = "checkpoint"
    /\ UNCHANGED <<cfgVars, sampler, epoch, step, global_step, live, grad,
                   gamma, ema, rng, noise, gen, ckpt, scriptVars>>

\* torch.save({'model_state', 'ema_model_state', 'optimizer_state'},
\* args.output_dir);
\* then the next batch.
Checkpoint ==
    /\ pc = "checkpoint"
    /\ ckpt' = <<[model_state |-> live, ema_model_state |-> ema.shadow,
                  optimizer_state |-> hist.optSteps]>>
    /\ hist' = [hist EXCEPT !.ckptWrites = @ + 1, !.ckptAt = global_step]
    /\ gen' = GenIdle
    /\ step' = step + 1
    /\ pc' = "fetch"
    /\ UNCHANGED <<cfgVars, sampler, epoch, global_step, live, grad, gamma,
                   ema, rng, noise, images, scriptVars>>

\* progress_bar.close(); losses.append(...); the next epoch.
EpochEnd ==
    /\ pc = "epoch_end"
    /\ epoch' = epoch + 1
    /\ pc' = "epoch_start"
    /\ UNCHANGED <<cfgVars, sampler, step, global_step, live, grad, gamma,
                   ema, rng, noise, gen, outVars, scriptVars, hist>>

\* ------------------------------------------------------- generate.py
\* The script is invoked (again): a new process, whose default generator is
\* seeded from the system's entropy. Modelled for a finished training process.
ScriptStart ==
    /\ pc = "done"
    /\ spc \in {"idle", "done", "crashed"}
    /\ sruns < MaxScriptRuns
    /\ sruns' = sruns + 1
    /\ \E s \in {1, 2} : srng' = ManualSeed(s)
    /\ smodel' = 0
    /\ sgen' = GenIdle
    /\ sout' = [dir |-> FALSE, files |-> 0, grid |-> FALSE]
    /\ spc' = "load"
    /\ UNCHANGED <<cfgVars, sampler, trainVars, gen, outVars, hist>>

\* pretrained = torch.load(path)["ema_model_state"]; model.load_state_dict(...)
ScriptLoad ==
    /\ spc = "load"
    /\ IF ckpt = <<>>
       THEN spc' = "crashed" /\ UNCHANGED smodel
       ELSE smodel' = ckpt[1].ema_model_state /\ spc' = "manual_seed"
    /\ UNCHANGED <<cfgVars, sampler, trainVars, gen, outVars, srng, sgen,
                   sout, sruns, hist>>

\* model.eval(); generator = torch.manual_seed(0)
ScriptSeed ==
    /\ spc = "manual_seed"
    /\ srng' = SeedForSampling(srng)
    /\ hist' = [hist EXCEPT !.sPrior = srng]
    /\ spc' = "generate"
    /\ UNCHANGED <<cfgVars, sampler, trainVars, gen, outVars, smodel, sgen,
                   sout, sruns>>

\* noise_scheduler.generate(model, num_inference_steps=..., ...) returning.
ScriptGenerate ==
    /\ spc = "generate"
    /\ ConfigOk(script_n_timesteps, script_n_inference_timesteps)
    /\ LET out == Sample(script_n_timesteps, script_n_inference_timesteps,
                         smodel, srng)
       IN  /\ sgen' = [status |-> "done", w |-> smodel, out |-> <<out>>]
           /\ hist' = [hist EXCEPT !.sgenCalls = @ + 1,
                                   !.calls = @ \cup {[out |-> out,
                                                      prior |-> hist.sPrior]}]
    /\ srng' = AdvanceBy(srng, GenDraws(script_n_inference_timesteps,
                                        script_n_inference_timesteps))
    /\ spc' = "export"
    /\ UNCHANGED <<cfgVars, sampler, trainVars, gen, outVars, smodel, sout,
                   sruns>>

\* The same call with the predictor raising in denoising step k.
ScriptGenerateRaise ==
    /\ spc = "generate"
    /\ ConfigOk(script_n_timesteps, script_n_inference_timesteps)
    /\ \E k \in RaiseSteps(script_n_inference_timesteps) :
         srng' = AdvanceBy(srng, GenDraws(script_n_inference_timesteps, k))
    /\ sgen' = [status |-> "raised", w |-> smodel, out |-> <<>>]
    /\ hist' = [hist EXCEPT !.sgenCalls = @ + 1]
    /\ spc' = IF OnPredictorRaise = "propagate" THEN "crashed" ELSE "export"
    /\ UNCHANGED <<cfgVars, sampler, trainVars, gen, outVars, smodel, sout,
                   sruns>>

\* os.makedirs(out_dir); one jpeg per image; the grid.
ScriptExport ==
    /\ spc = "export"
    /\ sout' = [dir |-> TRUE, files |-> Len(sgen.out), grid |-> sgen.out # <<>>]
    /\ spc' = "done"
    /\ UNCHANGED <<cfgVars, sampler, trainVars, gen, outVars, smodel, srng,
                   sgen, sruns, hist>>

Next ==
    \/ EpochStart
    \/ Fetch
    \/ Backward
    \/ ScalerStep
    \/ EmaUpdateParams
    \/ EmaUpdateGamma
    \/ ClipGrad
    \/ LogStep
    \/ SaveCheck
    \/ SeedGenerator
    \/ Generate
    \/ GenerateRaise
    \/ SaveImages
    \/ Checkpoint
    \/ EpochEnd
    \/ ScriptStart
    \/ ScriptLoad
    \/ ScriptSeed
    \/ ScriptGenerate
    \/ ScriptGenerateRaise
    \/ ScriptExport

Spec == Init /\ [][Next]_vars

\* ------------------------------------------------ generate, step by step
\* A caller seeds a generator as the scripts do, or passes one in any other
\* state, and calls generate with some schedule lengths and weights.
SamplerPairs ==
    ((1..MaxT) \X (0..(MaxT + 1)))
      \cup {<<n_timesteps, n_inference_timesteps>>,
            <<script_n_timesteps, script_n_inference_timesteps>>}

InitGen ==
    /\ args = [num_epochs |-> 1, gradient_accumulation_steps |-> 1,
               save_model_steps |-> 1, use_clip_grad |-> FALSE,
               fp16_precision |-> FALSE, gamma |-> 8]
    /\ steps_per_epcoch = 1
    /\ total_num_steps = TotalNumSteps(1, args)
    /\ pc = "sampling"
    /\ epoch = 0
    /\ step = 0
    /\ global_step = 0
    /\ live = 0
    /\ grad = 0
    /\ gamma = args.gamma
    /\ ema = EMAInit(0, args.gamma, total_num_steps)
    /\ rng \in {SeedForSampling(ManualSeed(SEED)),
                AdvanceBy(ManualSeed(SEED), 3)}
    /\ noise = 0
    /\ gen = GenIdle
    /\ \E p \in SamplerPairs, w \in {0, 1} :
         sampler = [SamplerIdle EXCEPT !.status = "called", !.T = p[1],
                                       !.S = p[2], !.w = w, !.r0 = rng]
    /\ ckpt = <<>>
    /\ images = <<>>
    /\ spc = "idle"
    /\ smodel = 0
    /\ srng = ManualSeed(SEED)
    /\ sgen = GenIdle
    /\ sout = [dir |-> FALSE, files |-> 0, grid |-> FALSE]
    /\ sruns = 0
    /\ hist = HistInit

\* generate checks its configuration and draws the initial x.
SamplerEnter ==
    /\ sampler.status = "called"
    /\ IF ConfigOk(sampler.T, sampler.S)
       THEN /\ sampler' = GenBegin(sampler.T, sampler.S, sampler.w, rng)
            /\ rng' = Advance(rng)
       ELSE /\ sampler' = [sampler EXCEPT !.status = "config_error"]
            /\ UNCHANGED rng
    /\ UNCHANGED <<cfgVars, pc, epoch, step, global_step, live, grad, gamma,
                   ema, noise, gen, outVars, scriptVars, hist>>

\* One denoising step.
SamplerStep ==
    /\ sampler.status = "running"
    /\ sampler.i < sampler.S
    /\ sampler' = GenAdvance(sampler, rng)
    /\ rng' = GenStepRng(sampler, rng)
    /\ UNCHANGED <<cfgVars, pc, epoch, step, global_step, live, grad, gamma,
                   ema, noise, gen, outVars, scriptVars, hist>>

\* The predictor raises in the step about to run: the rolling estimate is
\* dropped and the exception leaves generate.
SamplerRaise ==
    /\ sampler.status = "running"
    /\ sampler.i < sampler.S
    /\ sampler' = [sampler EXCEPT !.status = "raised", !.x = 0, !.xin = 0,
                                  !.xprev = 0]
    /\ UNCHANGED <<cfgVars, trainVars, gen, outVars, scriptVars, hist>>

\* The loop is over: generate returns the final estimate.
SamplerReturn ==
    /\ sampler.status = "running"
    /\ sampler.i = sampler.S
    /\ sampler' = [sampler EXCEPT !.status = "done"]
    /\ UNCHANGED <<cfgVars, trainVars, gen, outVars, scriptVars, hist>>

NextGen ==
    \/ SamplerEnter
    \/ SamplerStep
    \/ SamplerRaise
    \/ SamplerReturn

SpecGen == InitGen /\ [][NextGen]_vars

\* GenDraws, which Generate and ScriptGenerate advance the generator by, is
\* the number of draws the steps take (an invariant of SpecGen).
GenDrawsAgree ==
    sampler.status \in {"running", "done", "raised"} =>
        rng = AdvanceBy(sampler.r0, GenDraws(sampler.S, sampler.i))


\* ------------------------------------------------------------------ claims
TrainingPositions ==
    {"epoch_start", "fetch", "backward", "scaler_step", "ema_params",
     "ema_gamma", "clip", "log", "save_check", "epoch_end", "done"}

\* C1: update_params is invoked exactly once per completed optimizer step,
\* after that step's update of the live weights and before the next one: the
\* completed optimizer steps outnumber the update_params calls by one between
\* the optimizer step and the update_params call of an iteration, and equal
\* them everywhere else.
C1_OncePerOptimizerStep ==
    IF pc = "ema_params"
    THEN hist.optSteps = hist.emaCalls + 1
    ELSE hist.optSteps = hist.emaCalls

\* C2: two completed generate calls with the same predictor weights and the
\* same schedule lengths (seed, eta and batch size are fixed) return the same
\* arrays, whatever was drawn from the generator before each call.
C2_SamplingDeterministic ==
    \A a \in hist.calls : \A b \in hist.calls :
        (a.out.T = b.out.T /\ a.out.S = b.out.S /\ a.out.w = b.out.w)
            => a.out = b.out

\* Two calls with the same weights and schedule lengths were made with the
\* default generator in different states before the seeding.
C2_Witness ==
    \E a \in hist.calls : \E b \in hist.calls :
        /\ a.prior # b.prior
        /\ a.out.T = b.out.T /\ a.out.S = b.out.S /\ a.out.w = b.out.w
        /\ a.out.T = n_timesteps

\* C3: a sampling call leaves the random stream of the training loop as it
\* would be had no sampling call happened: wherever the loop stands, its
\* generator is in the state the draws of the loop alone would have left.
C3_TrainingStreamUntouched ==
    pc \in TrainingPositions => rng = hist.rngIfNoSampling

\* C4: the decay coefficients passed to successive update_params calls start
\* at the --gamma argument and never decrease, and the steps passed to
\* update_gamma strictly increase over the whole run, epochs included.
C4_GammaSchedule ==
    /\ \A i \in 1..Len(hist.gammaSeq) :
          IF i = 1 THEN hist.gammaSeq[i] = args.gamma
          ELSE hist.gammaSeq[i - 1] <= hist.gammaSeq[i]
    /\ \A i \in 2..Len(hist.stepSeq) : hist.stepSeq[i - 1] < hist.stepSeq[i]

\* update_params has been called in a second epoch with a coefficient above
\* the initial one.
C4_Witness ==
    /\ epoch >= 1
    /\ Len(hist.gammaSeq) > steps_per_epcoch
    /\ Len(hist.stepSeq) > steps_per_epcoch
    /\ hist.gammaSeq[Len(hist.gammaSeq)] > args.gamma

\* C5: the shadow parameters change only in update_params, which leaves the
\* live parameters alone, and the live parameters change only in the
\* optimizer step, which leaves the shadow parameters alone.
C5_DisjointWriters ==
    [][/\ (ema'.shadow # ema.shadow => pc = "ema_params")
       /\ (live' # live => pc = "scaler_step")
       /\ (pc = "ema_params" => live' = live)
       /\ (pc = "scaler_step" => ema'.shadow = ema.shadow)]_vars

\* Both buffers have been written and differ.
C5_Witness ==
    /\ hist.optSteps >= 2
    /\ hist.emaCalls >= 2
    /\ ema.shadow # 0
    /\ ema.shadow # live

\* C6: for 1 <= S <= T generate raises no configuration error, walks
\* timesteps within [0, T-1] that strictly decrease, each step taking the
\* previous step's output as its input, takes no step after timestep 0, and
\* has taken exactly S steps, the last at timestep 0, when it returns.
C6_LinearWalk ==
    /\ (sampler.status = "config_error") => ~ConfigOk(sampler.T, sampler.S)
    /\ sampler.status \in {"running", "done", "raised"} =>
          /\ ConfigOk(sampler.T, sampler.S)
          /\ sampler.i \in 0..sampler.S
          /\ (sampler.i >= 1 => sampler.tau \in 0..(sampler.T - 1))
          /\ (sampler.i >= 2 => sampler.tau < sampler.tauPrev)
          /\ (sampler.i >= 1 /\ sampler.tau = 0 => sampler.i = sampler.S)
          /\ (sampler.status = "running" /\ sampler.i >= 1
                => sampler.xin = sampler.xprev)
    /\ sampler.status = "done" =>
          /\ sampler.i = sampler.S
          /\ sampler.tau = 0

\* generate has returned for the training script's schedule lengths.
C6_Witness ==
    /\ sampler.status = "done"
    /\ sampler.T = n_timesteps
    /\ sampler.S = n_inference_timesteps
    /\ sampler.i = n_inference_timesteps

\* C7: when the predictor raises inside generate, the exception ends the
\* script: the training loop saves no images and writes no checkpoint for
\* that save point (both stay at the number of generate calls that returned)
\* and makes no further call; the generation script creates no output
\* directory and no image file.
C7_RaisePropagates ==
    /\ gen.status = "raised" =>
          /\ pc = "crashed"
          /\ gen.out = <<>>
          /\ hist.imageSaves = hist.genDone
          /\ hist.ckptWrites = hist.genDone
          /\ hist.genCalls = hist.genDone + 1
    /\ sgen.status = "raised" =>
          /\ spc = "crashed"
          /\ sgen.out = <<>>
          /\ sout = [dir |-> FALSE, files |-> 0, grid |-> FALSE]

\* The predictor raised at a save point after an earlier one had been saved.
C7_Witness ==
    /\ gen.status = "raised"
    /\ hist.ckptWrites >= 1

\* C8: generate is called when and only when the count of completed steps
\* reaches a positive multiple of save_model_steps, on the shadow parameters
\* as updated by the update_params call of every completed step; every
\* checkpoint follows a returned generate call and holds the live parameters
\* as model_state and the shadow parameters as ema_model_state; the generation
\* script's predictor is the ema_model_state of the checkpoint.
C8_SavePoints ==
    LET sms == args.save_model_steps
        reached == global_step \div sms
        pending == /\ pc \in {"save_check", "manual_seed", "generate"}
                   /\ global_step % sms = 0
    IN  /\ pc \in (TrainingPositions \cup {"manual_seed", "generate",
                                            "save_images", "checkpoint",
                                            "crashed"}) =>
              hist.genCalls = (IF pending THEN reached - 1 ELSE reached)
        /\ hist.genCalls > 0 => (hist.genAt > 0 /\ hist.genAt % sms = 0)
        /\ gen.status \in {"done", "raised"} =>
              /\ gen.w = ema.shadow
              /\ hist.genAt = global_step
              /\ hist.emaCalls = global_step
        /\ hist.ckptWrites =
              (IF pc \in {"save_images", "checkpoint"}
               THEN hist.genDone - 1 ELSE hist.genDone)
        /\ ckpt # <<>> =>
              /\ hist.ckptAt > 0 /\ hist.ckptAt % sms = 0
              /\ (hist.ckptAt = global_step
                  /\ pc \in {"fetch", "backward", "scaler_step", "epoch_end",
                             "epoch_start", "done"}) =>
                    /\ ckpt[1].model_state = live
                    /\ ckpt[1].ema_model_state = ema.shadow
        /\ spc \in {"manual_seed", "generate", "export", "done"} =>
              /\ ckpt # <<>>
              /\ smodel = ckpt[1].ema_model_state

\* Two checkpoints were written and the generation script ran on the last
\* one, whose shadow parameters differ from its live parameters.
C8_Witness ==
    /\ hist.ckptWrites >= 2
    /\ spc = "done"
    /\ sgen.status = "done"
    /\ smodel # ckpt[1].model_state

\* C9: every step value passed to update_gamma lies in [0, total_steps],
\* total_steps being the value the EMA tracker was constructed with.
C9_StepWithinTotal ==
    \A i \in 1..Len(hist.stepSeq) :
        hist.stepSeq[i] \in 0..ema.total_steps

\* C10: with --use_clip_grad, every gradient the optimizer applied had been
\* clipped after the backward pass that produced it.
C10_ClipBeforeStep ==
    args.use_clip_grad => hist.appliedClipped

====
